---- MODULE Spec2Model ----
(***************************************************************************)
(* A model of s3_bucket_summary.py: the scanner get_s3_summary with its    *)
(* SIGALRM deadline, the reporter write_summary_to_csv, and the __main__   *)
(* block that runs them in sequence and turns the outcome into an exit     *)
(* code.                                                                   *)
(***************************************************************************)
EXTENDS Integers, Sequences, FiniteSets, TLC

(***************************************************************************)
(* Bounds of the model.                                                    *)
(***************************************************************************)
\* buckets returned by list_buckets
MaxBuckets == 2
\* objects a bucket's listing yields over all of its pages
MaxObjects == 2
\* objects of a record handed to the size attribution alone (SpecAttr)
MaxAttrObjects == 10
\* total size in bytes of such a record
MaxAttrSize == 90

(***************************************************************************)
(* IEEE-754 binary64 arithmetic, as far as lines 201-202 use it:           *)
(*     proportion = count / bucket_objects                                 *)
(*     int(bucket_size * proportion)                                       *)
(* A positive double is [m |-> <<t, d1, d2, d3>>, e |-> k]: its 53-bit     *)
(* significand t * W^3 + d1 * W^2 + d2 * W + d3 in limbs of 15 bits        *)
(* (W = 2^15, 128 <= t < 256), times 2^k.  The limbs keep every            *)
(* intermediate value within the model checker's 32-bit integers for       *)
(* counts and sizes below 2^15.                                            *)
(***************************************************************************)
W == 2^15

RECURSIVE Normalise(_, _, _)
\* c doubled until it reaches n: <<c * 2^z, z>> with n <= c * 2^z < 2n
Normalise(c, n, z) == IF c >= n THEN <<c, z>> ELSE Normalise(2 * c, n, z + 1)

\* round to nearest, ties to even, of a 53-bit significand m whose dropped
\* part is more than one half (up) or exactly one half (tie)
RoundEven(m, e, up, tie) ==
    IF up \/ (tie /\ m[4] % 2 = 1)
    THEN LET s4 == m[4] + 1
             s3 == m[3] + s4 \div W
             s2 == m[2] + s3 \div W
             s1 == m[1] + s2 \div W
         IN  IF s1 = 256 THEN [m |-> <<128, 0, 0, 0>>, e |-> e + 1]
             ELSE [m |-> <<s1, s2 % W, s3 % W, s4 % W>>, e |-> e]
    ELSE [m |-> m, e |-> e]

\* line 201: count / bucket_objects in binary64, for 1 <= c <= n: the
\* quotient's first 53 bits by long division, then rounded
FDiv(c, n) ==
    LET nz == Normalise(c, n, 0)
        r0 == nz[1] - n
        t  == 128 + (r0 * 128) \div n
        r1 == (r0 * 128) % n
        d1 == (r1 * W) \div n
        r2 == (r1 * W) % n
        d2 == (r2 * W) \div n
        r3 == (r2 * W) % n
        d3 == (r3 * W) \div n
        r4 == (r3 * W) % n
    IN  RoundEven(<<t, d1, d2, d3>>, 0 - nz[2] - 52, 2 * r4 > n, 2 * r4 = n)

RECURSIVE BitLength(_)
\* the number of bits of a natural number
BitLength(k) == IF k = 0 THEN 0 ELSE 1 + BitLength(k \div 2)

\* line 202: bucket_size * proportion in binary64, for 1 <= size < 2^15: the
\* exact product, then rounded to 53 bits
FMul(size, q) ==
    LET p4 == q.m[4] * size
        p3 == q.m[3] * size + p4 \div W
        p2 == q.m[2] * size + p3 \div W
        p1 == q.m[1] * size + p2 \div W
        drop == BitLength(p1) - 8
        D == 2^drop
        U == 2^(15 - drop)
        m == <<p1 \div D,
               (p1 % D) * U + (p2 % W) \div D,
               (p2 % D) * U + (p3 % W) \div D,
               (p3 % D) * U + (p4 % W) \div D>>
        lost == p4 % D
    IN  IF drop = 0 THEN [m |-> <<p1, p2 % W, p3 % W, p4 % W>>, e |-> q.e]
        ELSE RoundEven(m, q.e + drop, 2 * lost > D, 2 * lost = D)

\* line 202: int(x), truncation towards zero of a double below 2^23
IntTrunc(x) ==
    LET k == 0 - x.e
    IN  IF k >= 53 THEN 0
        ELSE IF k >= 45 THEN x.m[1] \div 2^(k - 45)
        ELSE (x.m[1] * W + x.m[2]) \div 2^(k - 30)

\* line 202: int(bucket_size * proportion), proportion of line 201
ClassSize(bucket_size, count, bucket_objects) ==
    IF bucket_size = 0 THEN 0
    ELSE IntTrunc(FMul(bucket_size, FDiv(count, bucket_objects)))

(***************************************************************************)
(* The remote service and the values the program handles.                  *)
(***************************************************************************)
\* the storage classes of the objects listed
Classes == {"STANDARD", "GLACIER"}
\* the objects of page['Contents'] the listings are made of; "absent" is an
\* object without 'StorageClass'
Objects == {[Size |-> 1, StorageClass |-> "STANDARD"],
            [Size |-> 2, StorageClass |-> "GLACIER"],
            [Size |-> 1, StorageClass |-> "absent"]}

\* how credential resolution and sts.get_caller_identity() can end (lines 31-50)
CredOutcomes == {"ok", "ok_no_account", "NoCredentialsError",
                 "PartialCredentialsError", "ProfileNotFound",
                 "ClientError", "OtherError"}
\* the outcomes in which no usable credentials resolve (line 44)
CredentialFailures == {"NoCredentialsError", "PartialCredentialsError",
                       "ProfileNotFound"}
\* the outcomes in which the credentials resolve and the identity lookup fails
IdentityFailures == {"ClientError", "OtherError"}

\* the session value before line 72
NoSession == [kind |-> "unset", account_id |-> "unset"]
\* line 47 and line 50: return None, None
NoneNone == [kind |-> "tuple", account_id |-> "unset"]

\* a get_aws_session that treats a failed identity lookup as non-fatal and
\* returns the session without an account id
SessionWithoutAccount(outcome) ==
    IF outcome = "ClientError" THEN [kind |-> "Session", account_id |-> "N/A"]
    ELSE NoneNone

\* lines 44-50: what get_aws_session returns when an exception it catches is
\* raised: the pair (None, None)
SessionOnError(outcome) == NoneNone

\* lines 31-50: the value get_aws_session returns; "OtherError" is not caught
\* there and is handled by the caller
get_aws_session(outcome) ==
    CASE outcome = "ok" -> [kind |-> "Session", account_id |-> "123456789012"]
      [] outcome = "ok_no_account" -> [kind |-> "Session", account_id |-> "N/A"]
      [] OTHER -> SessionOnError(outcome)

\* line 73: the truth value of `session`; only None, and no tuple of two
\* elements, is false
Truthy(v) == v.kind \in {"Session", "tuple"}

\* line 77: getattr(session, 'account_id', 'N/A')
AccountIdOf(v) == IF v.kind = "Session" THEN v.account_id ELSE "N/A"

\* line 80: whether session.client exists (a tuple has no attribute client)
HasClient(v) == v.kind = "Session"

\* line 97: defaultdict(int)
EmptyDict == [c \in {} |-> 0]

\* d[k] += v on a defaultdict(int)
AddTo(d, k, v) ==
    [x \in DOMAIN d \cup {k} |-> IF x = k
                                THEN (IF k \in DOMAIN d THEN d[k] ELSE 0) + v
                                ELSE d[x]]

\* line 106: obj.get('StorageClass', 'STANDARD')
StorageClassOf(obj) ==
    IF obj.StorageClass = "absent" THEN "STANDARD" ELSE obj.StorageClass

\* line 107 with = 1 in place of += 1
CountClassOnce(storage_classes, obj) ==
    [x \in DOMAIN storage_classes \cup {StorageClassOf(obj)} |->
        IF x = StorageClassOf(obj) THEN 1 ELSE storage_classes[x]]

\* line 107: storage_classes[storage_class] += 1
CountClass(storage_classes, obj) == AddTo(storage_classes, StorageClassOf(obj), 1)

\* lines 126-131: the record appended to summary
Record(name, count, size, classes) ==
    [name |-> name, object_count |-> count, total_size |-> size,
     storage_classes |-> classes]

\* lines 120-121 with `break` in place of `continue`
BreakAfterClientError(count) == IF count = 0 THEN "finally" ELSE "append"

\* lines 120-121: where control goes after a ClientError of the listing:
\* `continue` with nothing counted, else on to the append
AfterClientError(count) == IF count = 0 THEN "loop_head" ELSE "append"

\* lines 144 and 148 with <= 1 in place of == 0
EmptyReturnUpToOne(processed) == processed <= 1

\* lines 144 and 148: processed_buckets == 0, the handlers' empty return
EmptyReturn(processed) == processed = 0

\* a finally clause that leaves the timer as it is
KeepTimer(timer) == timer

\* line 152: signal.alarm(0)
Disarm(timer) == "disarmed"

\* the ([], None) of lines 74, 145, 149 and 159
EmptyResult == [kind |-> "return", records |-> <<>>, account_id |-> "None",
                exc |-> "none"]
\* get_s3_summary has not ended
Pending == [kind |-> "pending", records |-> <<>>, account_id |-> "None",
            exc |-> "none"]
\* line 161: return summary, account_id
Returned(records, acct) ==
    [kind |-> "return", records |-> records, account_id |-> acct, exc |-> "none"]
\* get_s3_summary ends by an exception
Raised(e) ==
    [kind |-> "raise", records |-> <<>>, account_id |-> "None", exc |-> e]

(***************************************************************************)
(* write_summary_to_csv, lines 185-247.                                    *)
(***************************************************************************)
RECURSIVE ClassPass(_, _, _)
\* lines 198-202: the inner loop over the classes ks of one entry, on the
\* pair [objects, sizes] of running per-class totals
ClassPass(entry, ks, acc) ==
    IF ks = {} THEN acc
    ELSE LET sc == CHOOSE x \in ks : TRUE
             count == entry.storage_classes[sc]
         IN  ClassPass(entry, ks \ {sc},
                 [objects |-> AddTo(acc.objects, sc, count),
                  sizes |-> AddTo(acc.sizes, sc,
                                  ClassSize(entry.total_size, count,
                                            entry.object_count))])

\* lines 192-206: one entry of the first pass
EntryPass(entry, acc) ==
    IF DOMAIN entry.storage_classes # {} /\ entry.object_count > 0
    THEN ClassPass(entry, DOMAIN entry.storage_classes, acc)
    ELSE [objects |-> AddTo(acc.objects, "STANDARD", entry.object_count),
          sizes |-> AddTo(acc.sizes, "STANDARD", entry.total_size)]

RECURSIVE FirstPass(_, _, _)
\* lines 191-206: the first pass over summary[j..]
FirstPass(summary, j, acc) ==
    IF j > Len(summary) THEN acc
    ELSE FirstPass(summary, j + 1, EntryPass(summary[j], acc))

RECURSIVE TotalObjects(_)
\* lines 209-218: total_objects of the second pass
TotalObjects(summary) ==
    IF summary = <<>> THEN 0
    ELSE Head(summary).object_count + TotalObjects(Tail(summary))

RECURSIVE TotalSize(_)
\* lines 209-219: total_size of the second pass
TotalSize(summary) ==
    IF summary = <<>> THEN 0
    ELSE Head(summary).total_size + TotalSize(Tail(summary))

\* lines 241-247: the totals write_summary_to_csv returns
write_summary_to_csv(summary) ==
    LET acc == FirstPass(summary, 1, [objects |-> EmptyDict, sizes |-> EmptyDict])
    IN  [total_buckets |-> Len(summary),
         total_objects |-> TotalObjects(summary),
         total_size |-> TotalSize(summary),
         storage_class_objects |-> acc.objects,
         storage_class_sizes |-> acc.sizes]

\* csv_stats before write_summary_to_csv has returned
NoStats == [total_buckets |-> 0, total_objects |-> 0, total_size |-> 0,
            storage_class_objects |-> EmptyDict, storage_class_sizes |-> EmptyDict]

(***************************************************************************)
(* The program run: __main__ (lines 332-362) calling get_s3_summary (lines *)
(* 52-161), then write_summary_to_csv and print_console_summary.           *)
(*                                                                         *)
(* pc is the statement about to run.  SIGALRM and SIGINT are delivered     *)
(* between statements: the actions Timer and Interrupt raise their         *)
(* exception at pc, before the statement there has run.                    *)
(***************************************************************************)
VARIABLES
    pc,                 \* the statement about to run
    alarm,              \* the SIGALRM timer: unarmed, armed, fired, disarmed
    bound,              \* the local names of get_s3_summary bound so far
    cred,               \* how credential resolution ended
    session,            \* session (line 72)
    account_id,         \* account_id (line 77)
    total_buckets,      \* total_buckets (line 82)
    processed_buckets,  \* processed_buckets (lines 69, 133)
    summary,            \* summary (lines 85, 126)
    i,                  \* the loop index of line 87; bucket i is named i
    object_count,       \* object_count (lines 95, 104)
    total_size,         \* total_size (lines 96, 105)
    storage_classes,    \* storage_classes (lines 97, 107)
    remaining,          \* objects of the current page not yet counted
    obj,                \* obj (line 103), between lines 105 and 106
    exc,                \* the exception propagating through the finally clause
    ret,                \* the return value waiting for the finally clause
    result,             \* how get_s3_summary ended for its caller
    warning,            \* the counts printed by line 143
    report,             \* s3_bucket_summary.csv: absent, partial, complete
    csv_stats,          \* csv_stats (line 349)
    exit_code,          \* the exit code; -1 while the program runs
    fired,              \* history: where and on what the deadline fired
    interrupted,        \* history: the pc at which SIGINT arrived
    failed,             \* history: the pc at which an unexpected error was raised
    errs                \* history: the listings that raised ClientError

vars == <<pc, alarm, bound, cred, session, account_id, total_buckets,
          processed_buckets, summary, i, object_count, total_size,
          storage_classes, remaining, obj, exc, ret, result, warning, report,
          csv_stats, exit_code, fired, interrupted, failed, errs>>

\* the variables of the scan's data
scan == <<total_buckets, processed_buckets, summary, i, object_count,
          total_size, storage_classes, remaining, obj>>
\* the variables of the session
creds == <<cred, session, account_id>>
\* the variables of the caller
main == <<report, csv_stats, exit_code>>
\* the history variables
hist == <<fired, interrupted, failed, errs>>

\* the statements of the try block, lines 63-140
TryPcs == {"init_locals", "get_session", "check_session", "list_buckets",
           "init_summary", "loop_head", "next_page", "obj_count", "obj_class",
           "except_client", "append", "incr"}
\* the statements of the bucket loop, lines 87-140
LoopPcs == {"loop_head", "next_page", "obj_count", "obj_class",
            "except_client", "append", "incr"}
\* the statements paginating a bucket, lines 101-107
PaginationPcs == {"next_page", "obj_count", "obj_class"}
\* the except clauses, lines 142-149
HandlerPcs == {"h_timeout", "h_exception"}
\* the statements of __main__ after the call of line 345
MainPcs == {"main_recv", "csv_open", "csv_write", "console"}

\* no object is being processed
NoObject == [Size |-> 0, StorageClass |-> "absent"]
\* the deadline has not fired
NotFired == [at |-> "none", processed |-> 0, summary |-> <<>>, bucket |-> 0]

\* get_s3_summary is left: its accumulators and its summary are gone (i and
\* total_buckets stay, as the record of how far the loop went)
LocalsDropped ==
    /\ processed_buckets' = 0
    /\ summary' = <<>>
    /\ object_count' = 0
    /\ total_size' = 0
    /\ storage_classes' = EmptyDict
    /\ remaining' = 0
    /\ obj' = NoObject
    /\ UNCHANGED <<i, total_buckets>>

Init ==
    /\ pc = "main_start"
    /\ alarm = "unarmed"
    /\ bound = {}
    /\ cred = "unset"
    /\ session = NoSession
    /\ account_id = "unset"
    /\ total_buckets = 0
    /\ processed_buckets = 0
    /\ summary = <<>>
    /\ i = 0
    /\ object_count = 0
    /\ total_size = 0
    /\ storage_classes = EmptyDict
    /\ remaining = 0
    /\ obj = NoObject
    /\ exc = "none"
    /\ ret = Pending
    /\ result = Pending
    /\ warning = <<>>
    /\ report = "absent"
    /\ csv_stats = NoStats
    /\ exit_code = -1
    /\ fired = NotFired
    /\ interrupted = "none"
    /\ failed = "none"
    /\ errs = {}

\* lines 336-345: __main__ up to the call of get_s3_summary
MainStart ==
    /\ pc = "main_start"
    /\ pc' = "arm"
    /\ UNCHANGED <<alarm, bound, creds, scan, exc, ret, result, warning, main, hist>>

\* lines 65-66: signal.signal and signal.alarm
Arm ==
    /\ pc = "arm"
    /\ alarm' = "armed"
    /\ pc' = "init_locals"
    /\ UNCHANGED <<bound, creds, scan, exc, ret, result, warning, main, hist>>

\* lines 68-69
InitLocals ==
    /\ pc = "init_locals"
    /\ bound' = bound \cup {"start_time", "processed_buckets"}
    /\ processed_buckets' = 0
    /\ pc' = "get_session"
    /\ UNCHANGED <<alarm, creds, total_buckets, summary, i, object_count,
                   total_size, storage_classes, remaining, obj, exc, ret,
                   result, warning, main, hist>>

\* line 72: session = get_aws_session(profile_name); an exception that
\* get_aws_session does not catch reaches the except clause of line 146
GetSession ==
    /\ pc = "get_session"
    /\ \E outcome \in CredOutcomes :
          /\ cred' = outcome
          /\ IF outcome = "OtherError"
             THEN /\ pc' = "h_exception"
                  /\ failed' = "get_session"
                  /\ UNCHANGED <<session, bound>>
             ELSE /\ session' = get_aws_session(outcome)
                  /\ bound' = bound \cup {"session"}
                  /\ pc' = "check_session"
                  /\ UNCHANGED failed
    /\ UNCHANGED <<alarm, account_id, scan, exc, ret, result, warning, main,
                   fired, interrupted, errs>>

\* lines 73-77
CheckSession ==
    /\ pc = "check_session"
    /\ IF ~Truthy(session)
       THEN /\ ret' = EmptyResult
            /\ pc' = "finally"
            /\ UNCHANGED <<account_id, bound>>
       ELSE /\ account_id' = AccountIdOf(session)
            /\ bound' = bound \cup {"account_id"}
            /\ pc' = "list_buckets"
            /\ UNCHANGED ret
    /\ UNCHANGED <<alarm, cred, session, scan, exc, result, warning, main, hist>>

\* lines 80-82: session.client('s3') and s3.list_buckets(), which returns
\* the buckets or raises
ListBuckets ==
    /\ pc = "list_buckets"
    /\ \/ /\ HasClient(session)
          /\ \E n \in 0..MaxBuckets : total_buckets' = n
          /\ bound' = bound \cup {"s3", "buckets", "total_buckets"}
          /\ pc' = "init_summary"
          /\ UNCHANGED failed
       \/ /\ failed' = "list_buckets"
          /\ pc' = "h_exception"
          /\ UNCHANGED <<total_buckets, bound>>
    /\ UNCHANGED <<alarm, creds, processed_buckets, summary, i, object_count,
                   total_size, storage_classes, remaining, obj, exc, ret,
                   result, warning, main, fired, interrupted, errs>>

\* lines 84-85
InitSummary ==
    /\ pc = "init_summary"
    /\ summary' = <<>>
    /\ bound' = bound \cup {"summary"}
    /\ pc' = "loop_head"
    /\ UNCHANGED <<alarm, creds, total_buckets, processed_buckets, i,
                   object_count, total_size, storage_classes, remaining, obj,
                   exc, ret, result, warning, main, hist>>

\* lines 87-98: the next bucket, or the end of the try block
LoopHead ==
    /\ pc = "loop_head"
    /\ IF i < total_buckets
       THEN /\ i' = i + 1
            /\ object_count' = 0
            /\ total_size' = 0
            /\ storage_classes' = EmptyDict
            /\ remaining' = 0
            /\ pc' = "next_page"
       ELSE /\ pc' = "finally"
            /\ UNCHANGED <<i, object_count, total_size, storage_classes, remaining>>
    /\ UNCHANGED <<alarm, bound, creds, total_buckets, processed_buckets,
                   summary, obj, exc, ret, result, warning, main, hist>>

\* lines 101-102: the page iterator yields a page of n objects (none: the page
\* has no 'Contents'), ends, raises ClientError, or raises something else
NextPage ==
    /\ pc = "next_page"
    /\ \/ /\ \E n \in 0..(MaxObjects - object_count) :
                /\ remaining' = n
                /\ pc' = IF n = 0 THEN "next_page" ELSE "obj_count"
          /\ UNCHANGED <<failed, errs>>
       \/ /\ pc' = "append"
          /\ UNCHANGED <<remaining, failed, errs>>
       \/ /\ errs' = errs \cup {Record(i, object_count, total_size, storage_classes)}
          /\ pc' = "except_client"
          /\ UNCHANGED <<remaining, failed>>
       \/ /\ failed' = "next_page"
          /\ pc' = "h_exception"
          /\ UNCHANGED <<remaining, errs>>
    /\ UNCHANGED <<alarm, bound, creds, total_buckets, processed_buckets,
                   summary, i, object_count, total_size, storage_classes, obj,
                   exc, ret, result, warning, main, fired, interrupted>>

\* lines 103-105
ObjCount ==
    /\ pc = "obj_count"
    /\ \E o \in Objects :
          /\ obj' = o
          /\ object_count' = object_count + 1
          /\ total_size' = total_size + o.Size
    /\ pc' = "obj_class"
    /\ UNCHANGED <<alarm, bound, creds, total_buckets, processed_buckets,
                   summary, i, storage_classes, remaining, exc, ret, result,
                   warning, main, hist>>

\* lines 106-115
ObjClass ==
    /\ pc = "obj_class"
    /\ storage_classes' = CountClass(storage_classes, obj)
    /\ remaining' = remaining - 1
    /\ obj' = NoObject
    /\ pc' = IF remaining = 1 THEN "next_page" ELSE "obj_count"
    /\ UNCHANGED <<alarm, bound, creds, total_buckets, processed_buckets,
                   summary, i, object_count, total_size, exc, ret, result,
                   warning, main, hist>>

\* lines 117-121
ExceptClient ==
    /\ pc = "except_client"
    /\ pc' = AfterClientError(object_count)
    /\ UNCHANGED <<alarm, bound, creds, scan, exc, ret, result, warning, main, hist>>

\* lines 123-131
AppendRecord ==
    /\ pc = "append"
    /\ summary' = Append(summary, Record(i, object_count, total_size, storage_classes))
    /\ pc' = "incr"
    /\ UNCHANGED <<alarm, bound, creds, total_buckets, processed_buckets, i,
                   object_count, total_size, storage_classes, remaining, obj,
                   exc, ret, result, warning, main, hist>>

\* lines 133-140
Incr ==
    /\ pc = "incr"
    /\ processed_buckets' = processed_buckets + 1
    /\ pc' = "loop_head"
    /\ UNCHANGED <<alarm, bound, creds, total_buckets, summary, i,
                   object_count, total_size, storage_classes, remaining, obj,
                   exc, ret, result, warning, main, hist>>

\* lines 142-145: the print of line 143 reads processed_buckets and
\* total_buckets, and raises UnboundLocalError when one is not bound yet
HandleTimeout ==
    /\ pc = "h_timeout"
    /\ IF ~({"processed_buckets", "total_buckets"} \subseteq bound)
       THEN /\ exc' = "UnboundLocalError"
            /\ UNCHANGED <<ret, warning>>
       ELSE /\ warning' = <<processed_buckets, total_buckets>>
            /\ ret' = IF EmptyReturn(processed_buckets) THEN EmptyResult ELSE Pending
            /\ UNCHANGED exc
    /\ pc' = "finally"
    /\ UNCHANGED <<alarm, bound, creds, scan, result, main, hist>>

\* lines 146-149
HandleException ==
    /\ pc = "h_exception"
    /\ IF "processed_buckets" \notin bound
       THEN /\ exc' = "UnboundLocalError"
            /\ UNCHANGED ret
       ELSE /\ ret' = IF EmptyReturn(processed_buckets) THEN EmptyResult ELSE Pending
            /\ UNCHANGED exc
    /\ pc' = "finally"
    /\ UNCHANGED <<alarm, bound, creds, scan, result, warning, main, hist>>

\* lines 150-152: the finally clause, then the pending exception or return
Finally ==
    /\ pc = "finally"
    /\ alarm' = Disarm(alarm)
    /\ IF exc # "none"
       THEN /\ result' = Raised(exc)
            /\ pc' = "main_recv"
            /\ LocalsDropped
       ELSE IF ret # Pending
       THEN /\ result' = ret
            /\ pc' = "main_recv"
            /\ LocalsDropped
       ELSE /\ pc' = "after"
            /\ UNCHANGED <<result, scan>>
    /\ UNCHANGED <<bound, creds, exc, ret, warning, main, hist>>

\* lines 154-161
After ==
    /\ pc = "after"
    /\ result' = IF summary = <<>> THEN EmptyResult
                 ELSE Returned(summary, account_id)
    /\ pc' = "main_recv"
    /\ LocalsDropped
    /\ UNCHANGED <<alarm, bound, creds, exc, ret, warning, main, hist>>

\* lines 345-346 and 357-362: the caller gets the pair or the exception.  The
\* first element of the pair is a list on every return (lines 74, 145, 149,
\* 159, 161), so the test of line 346 holds and lines 353-355 never run
MainRecv ==
    /\ pc = "main_recv"
    /\ IF result.kind = "raise"
       THEN /\ exit_code' = IF result.exc = "KeyboardInterrupt" THEN 130 ELSE 1
            /\ pc' = "exit"
       ELSE /\ pc' = "csv_open"
            /\ UNCHANGED exit_code
    /\ UNCHANGED <<alarm, bound, creds, scan, exc, ret, result, warning,
                   report, csv_stats, hist>>

\* line 171: open(filename, mode='w') creates or truncates the file
CsvOpen ==
    /\ pc = "csv_open"
    /\ report' = "partial"
    /\ pc' = "csv_write"
    /\ UNCHANGED <<alarm, bound, creds, scan, exc, ret, result, warning,
                   csv_stats, exit_code, hist>>

\* lines 172-247: the rows are written, the file is closed, the totals returned
CsvWrite ==
    /\ pc = "csv_write"
    /\ csv_stats' = write_summary_to_csv(result.records)
    /\ report' = "complete"
    /\ pc' = "console"
    /\ UNCHANGED <<alarm, bound, creds, scan, exc, ret, result, warning,
                   exit_code, hist>>

\* lines 350-352, and the end of the program
Console ==
    /\ pc = "console"
    /\ exit_code' = 0
    /\ pc' = "exit"
    /\ UNCHANGED <<alarm, bound, creds, scan, exc, ret, result, warning,
                   report, csv_stats, hist>>

\* lines 14-15: SIGALRM is delivered and timeout_handler raises
\* TimeoutException at pc.  In the try block the except clause of line 142
\* takes it; in an except clause it goes through the finally clause; in the
\* finally clause or after it, it leaves get_s3_summary; in __main__ the
\* except clause of line 360 takes it
Timer ==
    /\ alarm = "armed"
    /\ pc # "exit"
    /\ alarm' = "fired"
    /\ fired' = [at |-> pc, processed |-> processed_buckets,
                 summary |-> summary, bucket |-> i]
    /\ CASE pc \in TryPcs ->
              /\ pc' = "h_timeout"
              /\ UNCHANGED <<exc, ret, result, exit_code, scan>>
         [] pc \in HandlerPcs ->
              /\ exc' = "TimeoutException"
              /\ ret' = Pending
              /\ pc' = "finally"
              /\ UNCHANGED <<result, exit_code, scan>>
         [] pc \in {"finally", "after"} ->
              /\ result' = Raised("TimeoutException")
              /\ pc' = "main_recv"
              /\ LocalsDropped
              /\ UNCHANGED <<exc, ret, exit_code>>
         [] OTHER ->
              /\ exit_code' = 1
              /\ pc' = "exit"
              /\ UNCHANGED <<exc, ret, result, scan>>
    /\ UNCHANGED <<bound, creds, warning, report, csv_stats,
                   interrupted, failed, errs>>

\* SIGINT is delivered and KeyboardInterrupt is raised at pc.  It is no
\* Exception: in get_s3_summary only the finally clause sees it (no statement
\* reads the scan's locals again, which the model drops at once); in __main__
\* the except clause of line 357 exits with 130
Interrupt ==
    /\ interrupted = "none"
    /\ pc # "exit"
    /\ interrupted' = IF pc \in MainPcs THEN pc ELSE "scan"
    /\ CASE pc \in TryPcs \cup HandlerPcs \cup {"arm"} ->
              /\ exc' = "KeyboardInterrupt"
              /\ ret' = Pending
              /\ pc' = "finally"
              /\ LocalsDropped
              /\ UNCHANGED <<result, exit_code>>
         [] pc \in {"finally", "after"} ->
              /\ result' = Raised("KeyboardInterrupt")
              /\ pc' = "main_recv"
              /\ LocalsDropped
              /\ UNCHANGED <<exc, ret, exit_code>>
         [] OTHER ->
              /\ exit_code' = 130
              /\ pc' = "exit"
              /\ UNCHANGED <<exc, ret, result, scan>>
    /\ UNCHANGED <<alarm, bound, creds, warning, report, csv_stats,
                   fired, failed, errs>>

Next ==
    \/ MainStart \/ Arm \/ InitLocals \/ GetSession \/ CheckSession
    \/ ListBuckets \/ InitSummary \/ LoopHead \/ NextPage \/ ObjCount
    \/ ObjClass \/ ExceptClient \/ AppendRecord \/ Incr \/ HandleTimeout
    \/ HandleException \/ Finally \/ After \/ MainRecv \/ CsvOpen
    \/ CsvWrite \/ Console \/ Timer \/ Interrupt

Spec == Init /\ [][Next]_vars

(***************************************************************************)
(* The size attribution on its own: write_summary_to_csv applied to the    *)
(* result of a scan of one bucket of up to MaxAttrObjects objects and      *)
(* MaxAttrSize bytes.                                                      *)
(***************************************************************************)
\* the storage_classes of a bucket with a STANDARD and b GLACIER objects
Histogram(a, b) ==
    [c \in {x \in Classes : (x = "STANDARD" /\ a > 0) \/ (x = "GLACIER" /\ b > 0)}
        |-> IF c = "STANDARD" THEN a ELSE b]

\* the state at line 349 after the scan of one bucket has completed
InitAttr ==
    /\ pc = "csv_write"
    /\ alarm = "disarmed"
    /\ bound = {"start_time", "processed_buckets", "session", "account_id",
                "s3", "buckets", "total_buckets", "summary"}
    /\ cred = "ok"
    /\ session = get_aws_session("ok")
    /\ account_id = AccountIdOf(session)
    /\ total_buckets = 1
    /\ processed_buckets = 0
    /\ summary = <<>>
    /\ i = 1
    /\ object_count = 0
    /\ total_size = 0
    /\ storage_classes = EmptyDict
    /\ remaining = 0
    /\ obj = NoObject
    /\ exc = "none"
    /\ ret = Pending
    /\ \E a \in 0..MaxAttrObjects : \E b \in 0..(MaxAttrObjects - a) :
       \E size \in 0..MaxAttrSize :
          /\ a + b >= 1
          /\ result = Returned(<<Record(1, a + b, size, Histogram(a, b))>>,
                               account_id)
    /\ warning = <<>>
    /\ report = "partial"
    /\ csv_stats = NoStats
    /\ exit_code = -1
    /\ fired = NotFired
    /\ interrupted = "none"
    /\ failed = "none"
    /\ errs = {}

NextAttr == CsvWrite \/ Console

SpecAttr == InitAttr /\ [][NextAttr]_vars

(***************************************************************************)
(* The claims.                                                             *)
(***************************************************************************)
RECURSIVE SumOver(_, _)
\* the sum of d[k] over the keys ks of d
SumOver(d, ks) ==
    IF ks = {} THEN 0
    ELSE LET k == CHOOSE x \in ks : TRUE IN d[k] + SumOver(d, ks \ {k})

\* the sum of a dict's values
DictSum(d) == SumOver(d, DOMAIN d)

\* the elements of a sequence
Range(s) == {s[j] : j \in 1..Len(s)}

\* the records are in bucket-listing order
ListingOrder(records) ==
    \A j \in 1..(Len(records) - 1) : records[j].name < records[j + 1].name

C2_NoExceptionReachesCaller ==
    (interrupted = "none"
        /\ (fired.at \in TryPcs \ {"init_locals"} \/ failed # "none")) =>
            result.kind # "raise"

\* the scan ran to the end of the bucket loop, undisturbed
CompletedScan ==
    /\ result.kind = "return"
    /\ "total_buckets" \in bound
    /\ fired.at = "none"
    /\ failed = "none"
    /\ interrupted = "none"

\* C3: a bucket whose listing raised ClientError is recorded with the counts
\* accumulated so far when an object was counted and is absent otherwise, and
\* every bucket of the listing is still scanned: each is in the result unless
\* its own listing raised ClientError before any object
C3_AccessErrorKeepsScanning ==
    CompletedScan =>
        /\ i = total_buckets
        /\ \A e \in errs :
              IF e.object_count = 0
              THEN \A r \in Range(result.records) : r.name # e.name
              ELSE e \in Range(result.records)
        /\ \A b \in 1..total_buckets :
              (\A e \in errs : e.name # b) =>
                  \E r \in Range(result.records) : r.name = b
        /\ ListingOrder(result.records)

\* the first listing raised ClientError before any object, the second after
\* an object, and the second bucket is in the result
C3_Witness ==
    /\ CompletedScan
    /\ \E e0, e1 \in errs :
          /\ e0.object_count = 0
          /\ e1.object_count > 0
          /\ e0.name < e1.name
          /\ result.records = <<e1>>

\* C4: when no usable credentials resolve, the program exits with code 1
C4_CredentialFailureExitsOne ==
    (pc = "exit" /\ cred \in CredentialFailures /\ interrupted = "none"
                 /\ fired.at = "none") => exit_code = 1

\* C5 as stated: when the identity lookup fails, the buckets are still
\* listed and scanned
C5_IdentityFailureStillScans ==
    (cred \in IdentityFailures /\ result.kind = "return"
        /\ interrupted = "none" /\ fired.at = "none") =>
            "total_buckets" \in bound

\* C5 amended: when the identity lookup fails, the scan is aborted: no bucket
\* is listed or scanned, and what get_s3_summary returns is ([], None)
C5_IdentityFailureAborts ==
    cred \in IdentityFailures =>
        /\ "total_buckets" \notin bound
        /\ i = 0
        /\ result.kind = "return" => result = EmptyResult

\* get_caller_identity raised ClientError and get_s3_summary has returned
C5_Witness ==
    /\ cred = "ClientError"
    /\ result.kind = "return"
    /\ pc = "csv_open"

\* C6: after a KeyboardInterrupt at any point the program exits with code 130
\* and no report file has been written
C6_InterruptLeavesNoReport ==
    (pc = "exit" /\ interrupted # "none" /\ fired.at = "none") =>
        (exit_code = 130 /\ report = "absent")

RECURSIVE CountSum(_, _)
\* the sum of the object counts of records[1..j]
CountSum(records, j) ==
    IF j = 0 THEN 0 ELSE CountSum(records, j - 1) + records[j].object_count

\* C7: the totals write_summary_to_csv returns for the records of a scan have
\* total_objects equal to the sum of the records' object counts, and the
\* per-class object counts sum to total_objects
C7_TotalsAgree ==
    report = "complete" =>
        /\ csv_stats.total_objects = CountSum(result.records, Len(result.records))
        /\ DictSum(csv_stats.storage_class_objects) = csv_stats.total_objects

\* the report of a partial scan: the one record is of a listing that raised
\* ClientError after two objects of two classes, and the deadline fired in
\* the next bucket
C7_Witness ==
    /\ report = "complete"
    /\ fired.at \in PaginationPcs
    /\ \E e \in errs : e.object_count = 2 /\ result.records = <<e>>
    /\ DOMAIN csv_stats.storage_class_objects = Classes

\* C8: the size attributed to each class of a bucket is
\* floor(total_size_bytes * class_count / object_count); the attributed sizes
\* sum to at most total_size_bytes, and to exactly total_size_bytes when
\* every class share divides evenly
C8_AttributionIsFloor ==
    (report = "complete" /\ Len(result.records) = 1) =>
        LET r == result.records[1]
            sizes == csv_stats.storage_class_sizes
            even == \A sc \in DOMAIN r.storage_classes :
                       (r.total_size * r.storage_classes[sc]) % r.object_count = 0
        IN  (DOMAIN r.storage_classes # {} /\ r.object_count > 0) =>
                /\ \A sc \in DOMAIN r.storage_classes :
                      sizes[sc] = (r.total_size * r.storage_classes[sc])
                                      \div r.object_count
                /\ DictSum(sizes) <= r.total_size
                /\ even => DictSum(sizes) = r.total_size

\* C9: the timer is disarmed on every path by which get_s3_summary ends
\* (completion, early return, timeout, unexpected error), and
\* TimeoutException is never raised once get_s3_summary has returned, during
\* the writing of the report
C9_TimerDisarmedAtEnd ==
    /\ (result.kind # "pending" /\ interrupted = "none") => alarm # "armed"
    /\ result.kind = "return" => alarm # "armed"
    /\ fired.at \notin {"csv_open", "csv_write", "console"}
    /\ fired.at = "main_recv" => result.kind = "raise"

\* the report of a scan that recorded a bucket is being written, timer off
C9_Witness ==
    /\ pc = "csv_write"
    /\ alarm = "disarmed"
    /\ fired.at = "none"
    /\ Len(result.records) >= 1

\* C10: wherever in the bucket loop the deadline signal can be delivered,
\* processed_buckets is the number of records appended to summary; so no
\* record appended is discarded by the empty return of the handlers
C10_ProcessedMatchesSummary ==
    /\ (pc \in LoopPcs /\ alarm = "armed") => processed_buckets = Len(summary)
    /\ (result.kind = "return" /\ fired.at \in LoopPcs /\ fired.summary # <<>>) =>
           result.records # <<>>

====
